---- MODULE Spec2Model ----
(***************************************************************************)
(* A model of the RISC-V support headers of xmrig:                         *)
(*   src/crypto/riscv/riscv_memory.h   fences, atomics, bulk copy/compare  *)
(*   src/crypto/riscv/riscv_rvv.h      vector bulk copy/fill/xor/compare   *)
(*   src/crypto/riscv/riscv_crypto.h   rotate, add.uw                      *)
(*   src/crypto/rx/RxDataset_riscv.h   thread count and core advice        *)
(*                                                                         *)
(* The headers hold independent primitives, so the module has one          *)
(* specification per group of primitives.  All specifications share the    *)
(* variables below; a specification leaves the variables of the other      *)
(* groups at their idle value.                                             *)
(***************************************************************************)
EXTENDS Integers, Sequences, FiniteSets, TLC

VARIABLES
    \* ---- atomics (riscv_memory.h:211-239) ----
    word,       \* the shared riscv_atomic64_t
    old,        \* old[t]: the asm output operand `old` of thread t's call in progress
    returned,   \* returned[t]: the values thread t's completed calls returned, in order
    apc         \* apc[t]: "call" (before the AMO) or "ret" (AMO done, `return old` pending)

VARIABLES
    \* ---- publication handshake (riscv_memory.h:45-81, 215-225) ----
    mem,        \* mem[a]: the one shared memory (RVWMO is multi-copy atomic)
    prog,       \* prog[t]: the instruction sequence of hart t
    executed,   \* executed[t]: the positions of prog[t] that have been performed
    observed    \* observed[k]: the value the consumer's load at position k returned

VARIABLES
    \* ---- bulk memory operations (riscv_rvv.h:70-181, riscv_memory.h:119-209) ----
    impl,       \* the function, in the build variant, that the call runs
    vlen,       \* VLEN of the vector unit, in bits
    size,       \* the byte count argument (size, n)
    pattern,    \* riscv_memset_rvv's pattern: its four bytes, least significant first
    src,        \* the source buffer (src; the operand b of the xor)
    dst,        \* the destination buffer (dst, dest; the operand a of the xor)
    cmp_a,      \* the first buffer of a comparison (s1, a)
    cmp_b,      \* the second buffer of a comparison (s2, b)
    cursor,     \* the loop variable i of the function's main loop
    bpc,        \* "loop" (in or before the main loop) or "done" (returned)
    cmp_result  \* the value a comparison returned

VARIABLES
    \* ---- scalar primitives (riscv_crypto.h:96-178, RxDataset_riscv.h:53-101) ----
    build,      \* the macros the build defines: XMRIG_RISCV, __riscv_zba, __riscv_zbb, __riscv_zbc
    fn,         \* the function under call
    args,       \* its arguments, by parameter name (and what sysconf reports)
    result,     \* the value the call returned
    result2,    \* riscv_rotr32 only: the value of the second call, on the first result
    cpc         \* "call" (not yet called), "once" (returned), "twice" (second call returned)

atomVars == <<word, old, returned, apc>>
hsVars == <<mem, prog, executed, observed>>
bulkVars == <<impl, vlen, size, pattern, src, dst, cmp_a, cmp_b, cursor, bpc, cmp_result>>
callVars == <<build, fn, args, result, result2, cpc>>

vars == <<atomVars, hsVars, bulkVars, callVars>>

(***************************************************************************)
(* A step of one group of primitives leaves the other groups alone.        *)
(***************************************************************************)
OnlyAtomics == UNCHANGED <<hsVars, bulkVars, callVars>>
OnlyHandshake == UNCHANGED <<atomVars, bulkVars, callVars>>
OnlyBulk == UNCHANGED <<atomVars, hsVars, callVars>>
OnlyCalls == UNCHANGED <<atomVars, hsVars, bulkVars>>

(***************************************************************************)
(* Idle values of each group of variables.                                 *)
(***************************************************************************)
HsIdle ==
    /\ mem = <<>>
    /\ prog = <<>>
    /\ executed = <<>>
    /\ observed = <<>>

BulkIdle ==
    /\ impl = "none"
    /\ vlen = 0
    /\ size = 0
    /\ pattern = <<>>
    /\ src = <<>>
    /\ dst = <<>>
    /\ cmp_a = <<>>
    /\ cmp_b = <<>>
    /\ cursor = 0
    /\ bpc = "done"
    /\ cmp_result = 0

CallIdle ==
    /\ build = {}
    /\ fn = "none"
    /\ args = <<>>
    /\ result = 0
    /\ result2 = 0
    /\ cpc = "twice"

(***************************************************************************)
(* Atomics: riscv_atomic64_add and riscv_atomic64_exchange.                *)
(* An AMO instruction reads and writes its memory word in one indivisible  *)
(* step; the values used here stay far below 2^64, so the 64-bit wrap of   *)
(* amoadd.d is never reached.                                              *)
(***************************************************************************)

\* bounds
NAddThreads == 2
AddCalls == 3
NXchgThreads == 2
XchgCalls == 3

\* the initial value of the word in the exchange scenario
XchgInitial == 0

\* a faulty amoadd that hands back the updated value instead of the previous one
amoadd_d_new_value(m, v) == [mem |-> m + v, rd |-> m + v]

\* amoadd.d.aq rd, rs2, (rs1): rd := mem, mem := mem + rs2, atomically
amoadd_d(m, v) == [mem |-> m + v, rd |-> m]

\* a faulty amoswap that hands back the value it has just written
amoswap_d_new_value(m, v) == [mem |-> v, rd |-> v]

\* amoswap.d.aq rd, rs2, (rs1): rd := mem, mem := rs2, atomically
amoswap_d(m, v) == [mem |-> v, rd |-> m]

AtomThreads == DOMAIN apc

\* the value thread t passes to its k-th exchange (k counted from 1): all distinct
XchgValue(t, k) == t * 10 + k

AtomInit(n, v0) ==
    /\ word = v0
    /\ old = [t \in 1..n |-> 0]
    /\ returned = [t \in 1..n |-> <<>>]
    /\ apc = [t \in 1..n |-> "call"]

AtomIdle == AtomInit(0, 0)

\* riscv_atomic64_add(&word, 1), up to the end of the asm statement
riscv_atomic64_add(t) ==
    /\ apc[t] = "call"
    /\ Len(returned[t]) < AddCalls
    /\ LET r == amoadd_d(word, 1)
       IN  /\ word' = r.mem
           /\ old' = [old EXCEPT ![t] = r.rd]
    /\ apc' = [apc EXCEPT ![t] = "ret"]
    /\ UNCHANGED returned
    /\ OnlyAtomics

\* riscv_atomic64_exchange(&word, XchgValue(t, k)), up to the end of the asm statement
riscv_atomic64_exchange(t) ==
    /\ apc[t] = "call"
    /\ Len(returned[t]) < XchgCalls
    /\ LET r == amoswap_d(word, XchgValue(t, Len(returned[t]) + 1))
       IN  /\ word' = r.mem
           /\ old' = [old EXCEPT ![t] = r.rd]
    /\ apc' = [apc EXCEPT ![t] = "ret"]
    /\ UNCHANGED returned
    /\ OnlyAtomics

\* `return old;` of either function
AtomicReturn(t) ==
    /\ apc[t] = "ret"
    /\ returned' = [returned EXCEPT ![t] = Append(@, old[t])]
    /\ apc' = [apc EXCEPT ![t] = "call"]
    /\ UNCHANGED <<word, old>>
    /\ OnlyAtomics

FetchAddInit == AtomInit(NAddThreads, 0) /\ HsIdle /\ BulkIdle /\ CallIdle

FetchAddNext ==
    \/ \E t \in AtomThreads : riscv_atomic64_add(t)
    \/ \E t \in AtomThreads : AtomicReturn(t)

SpecFetchAdd == FetchAddInit /\ [][FetchAddNext]_vars

ExchangeInit == AtomInit(NXchgThreads, XchgInitial) /\ HsIdle /\ BulkIdle /\ CallIdle

ExchangeNext ==
    \/ \E t \in AtomThreads : riscv_atomic64_exchange(t)
    \/ \E t \in AtomThreads : AtomicReturn(t)

SpecExchange == ExchangeInit /\ [][ExchangeNext]_vars

\* every thread has completed all of its calls
FetchAddDone == \A t \in AtomThreads : apc[t] = "call" /\ Len(returned[t]) = AddCalls

\* a step in which thread t executes its AMO
AmoStepOf(t) == apc[t] = "call" /\ apc'[t] = "ret"

\* C1: no lost updates.  Once every one of the N threads has completed its K
\* calls of riscv_atomic64_add(word, 1) the word holds exactly N*K, and every
\* call hands back the value the word held immediately before its own
\* increment, which raises the word by exactly one.
FetchAddNoLostUpdate ==
    /\ [](FetchAddDone => word = NAddThreads * AddCalls)
    /\ [][\A t \in AtomThreads :
            AmoStepOf(t) => (old'[t] = word /\ word' = word + 1)]_vars
    /\ [](\A t \in AtomThreads : \A k \in 1..Len(returned[t]) :
            returned[t][k] < word)

\* C1 witness: all calls done, after an interleaving in which the two threads
\* alternated (thread 1 saw 0 and 2, thread 2 saw 1)
FetchAddWitness ==
    /\ FetchAddDone
    /\ word = NAddThreads * AddCalls
    /\ returned[1][1] = 0
    /\ returned[2][1] = 1
    /\ returned[1][2] = 2

\* the calls whose AMO is done: <<t, k>> for thread t's k-th call
AmoDone ==
    {c \in AtomThreads \X (1..XchgCalls) :
        c[2] <= Len(returned[c[1]]) + (IF apc[c[1]] = "ret" THEN 1 ELSE 0)}

\* the value handed back to such a call: returned already, or still in `old`
HandedBack(c) ==
    IF c[2] <= Len(returned[c[1]]) THEN returned[c[1]][c[2]] ELSE old[c[1]]

\* C3: exchange is an atomic read-modify-write returning the previous value:
\* at every moment the multiset of values handed back, together with the
\* word's current value, is the initial value plus the multiset of values
\* written so far; nothing is lost and nothing is handed to two callers.
\* (The values written are distinct and differ from the initial value, so the
\* multisets are equal when the sets are and no value is held twice.)
ExchangeConservesValues ==
    LET held == {HandedBack(c) : c \in AmoDone} \cup {word}
    IN  /\ held = {XchgInitial} \cup {XchgValue(c[1], c[2]) : c \in AmoDone}
        /\ Cardinality(held) = Cardinality(AmoDone) + 1

\* C3 witness: every exchange done, and thread 2 received a value thread 1 wrote
ExchangeWitness ==
    /\ \A t \in AtomThreads : apc[t] = "call" /\ Len(returned[t]) = XchgCalls
    /\ \E k \in 1..XchgCalls : returned[2][k] = XchgValue(1, 1)
    /\ \E k \in 1..XchgCalls : returned[1][k] = XchgInitial

(***************************************************************************)
(* The publication handshake under RVWMO.                                  *)
(*                                                                         *)
(* A hart performs its memory operations in any order that its preserved   *)
(* program order allows.  The programs here are plain loads and plain      *)
(* stores to distinct addresses with FENCE instructions between them, and  *)
(* the consumer's data addresses do not depend on the flag's value, so the *)
(* only preserved program order is: accesses to the same address, and a    *)
(* pair of accesses separated by a FENCE whose predecessor set holds the   *)
(* first access's kind and whose successor set holds the second's.  A      *)
(* FENCE orders only the accesses before it against the accesses after it, *)
(* so its position in the instruction sequence is part of the model.       *)
(***************************************************************************)

\* bound: the number of data words the producer publishes
NData == 2

Published == "published"    \* the value the producer writes to the data words and the flag
Unpublished == "stale"      \* the value of every word before the producer runs

Fence(p, s) == [op |-> "fence", pred |-> p, succ |-> s]
Load(a) == [op |-> "load", addr |-> a]
Store(a, v) == [op |-> "store", addr |-> a, val |-> v]

\* asm volatile ("fence r,r")
riscv_lfence == <<Fence({"r"}, {"r"})>>

\* asm volatile ("fence w,w")
riscv_sfence == <<Fence({"w"}, {"w"})>>

\* asm volatile ("fence r,rw")
riscv_acquire_fence == <<Fence({"r"}, {"r", "w"})>>

\* asm volatile ("fence rw,w")
riscv_release_fence == <<Fence({"r", "w"}, {"w"})>>

\* riscv_lfence(); return *p;
riscv_atomic64_load(p) == riscv_lfence \o <<Load(p)>>

\* riscv_sfence(); *p = v;
riscv_atomic64_store(p, v) == riscv_sfence \o <<Store(p, v)>>

DataAddr(n) == <<"data", n>>
DataAddrs == {DataAddr(n) : n \in 1..NData}
FlagAddr == <<"flag", 0>>

RECURSIVE StoreAll(_)
\* ordinary stores of the published value to data words 1..n, in program order
StoreAll(n) == IF n = 0 THEN <<>> ELSE StoreAll(n - 1) \o <<Store(DataAddr(n), Published)>>

RECURSIVE LoadAll(_)
\* ordinary loads of data words 1..n, in program order
LoadAll(n) == IF n = 0 THEN <<>> ELSE LoadAll(n - 1) \o <<Load(DataAddr(n))>>

\* the producer: ordinary data stores, then the flag published either with
\* riscv_atomic64_store or with riscv_release_fence and a store of the flag
ProducerPrograms ==
    { StoreAll(NData) \o riscv_atomic64_store(FlagAddr, Published),
      StoreAll(NData) \o riscv_release_fence \o <<Store(FlagAddr, Published)>> }

\* the consumer: riscv_atomic64_load of the flag, then ordinary loads of the data
ConsumerProgram == riscv_atomic64_load(FlagAddr) \o LoadAll(NData)

Producer == "producer"
Consumer == "consumer"
Harts == {Producer, Consumer}

Kind(ins) == IF ins.op = "load" THEN "r" ELSE "w"

IsAccess(ins) == ins.op \in {"load", "store"}

\* preserved program order between the accesses at positions j < k of program p
Ordered(p, j, k) ==
    \/ p[j].addr = p[k].addr
    \/ \E f \in (j + 1)..(k - 1) :
          /\ p[f].op = "fence"
          /\ Kind(p[j]) \in p[f].pred
          /\ Kind(p[k]) \in p[f].succ

\* the access at position k of hart t may be performed now
CanPerform(t, k) ==
    /\ k \in DOMAIN prog[t]
    /\ IsAccess(prog[t][k])
    /\ k \notin executed[t]
    /\ \A j \in 1..(k - 1) :
          (IsAccess(prog[t][j]) /\ j \notin executed[t]) => ~Ordered(prog[t], j, k)

HandshakeInit ==
    /\ mem = [a \in {FlagAddr} \cup DataAddrs |-> Unpublished]
    /\ \E pp \in ProducerPrograms :
          prog = [t \in Harts |-> IF t = Producer THEN pp ELSE ConsumerProgram]
    /\ executed = [t \in Harts |-> {}]
    /\ observed = [k \in DOMAIN ConsumerProgram |-> Unpublished]
    /\ AtomIdle
    /\ BulkIdle
    /\ CallIdle

PerformStore(t, k) ==
    /\ CanPerform(t, k)
    /\ prog[t][k].op = "store"
    /\ mem' = [mem EXCEPT ![prog[t][k].addr] = prog[t][k].val]
    /\ executed' = [executed EXCEPT ![t] = @ \cup {k}]
    /\ UNCHANGED <<prog, observed>>
    /\ OnlyHandshake

PerformLoad(t, k) ==
    /\ CanPerform(t, k)
    /\ prog[t][k].op = "load"
    /\ observed' = [observed EXCEPT ![k] = mem[prog[t][k].addr]]
    /\ executed' = [executed EXCEPT ![t] = @ \cup {k}]
    /\ UNCHANGED <<mem, prog>>
    /\ OnlyHandshake

HandshakeNext ==
    \/ \E t \in Harts : \E k \in DOMAIN prog[t] : PerformStore(t, k)
    \/ \E t \in Harts : \E k \in DOMAIN prog[t] : PerformLoad(t, k)

SpecHandshake == HandshakeInit /\ [][HandshakeNext]_vars

\* the position of the consumer's load of the flag
FlagLoadAt == CHOOSE k \in DOMAIN ConsumerProgram :
                ConsumerProgram[k].op = "load" /\ ConsumerProgram[k].addr = FlagAddr

\* the positions of the consumer's loads of the data
DataLoadsAt == {k \in DOMAIN ConsumerProgram :
                  ConsumerProgram[k].op = "load" /\ ConsumerProgram[k].addr \in DataAddrs}

\* C2: acquire/release handshake.  When the consumer's riscv_atomic64_load of
\* the flag has returned the published value, every ordinary load of the data
\* that follows that call in the consumer's program returns the producer's
\* value, never the value from before the publication.
HandshakePublishes ==
    (prog # <<>> /\ FlagLoadAt \in executed[Consumer] /\ observed[FlagLoadAt] = Published)
        => \A k \in DataLoadsAt :
              k \in executed[Consumer] => observed[k] = Published

\* the producer's half alone: whenever the flag holds the published value in
\* memory, every data word does too
ProducerOrdersFlagLast ==
    (prog # <<>> /\ mem[FlagAddr] = Published)
        => \A a \in DataAddrs : mem[a] = Published

(***************************************************************************)
(* Bulk memory operations.                                                 *)
(*                                                                         *)
(* A buffer is a function from byte offsets 0..cap-1 to bytes.  A 64-bit   *)
(* or 32-bit access moves the 8 or 4 bytes at its address; the target is   *)
(* little-endian, so byte k of a word is bits 8k..8k+7 of its value.       *)
(* Every loop iteration is one step.  The prefetch hints of                *)
(* riscv_memcpy_prefetch assemble to nothing ("# prefetch" is an assembler *)
(* comment) and change no state, so they are not steps of the model.       *)
(***************************************************************************)

CACHELINE_SIZE == 64

\* bounds
MaxCopyLen == 130   \* the largest size given to a copy
MaxFillLen == 65    \* the largest size given to a fill
MaxCmpLen == 17     \* the largest size given to a comparison
BufSlack == 8       \* bytes of each buffer beyond the largest size
CmpSlack == 2       \* bytes of each compared buffer beyond the largest size

\* the values of VLEN (bits) the model's vector units have
VLENs == {128, 256}

\* a destination buffer before the call: bytes that no source buffer holds
FreshBuffer(cap) == [k \in 0..(cap - 1) |-> 200 + (k % 7)]

\* the source buffers: bytes below 200, no two neighbours equal
SourceBuffers(cap) ==
    { [k \in 0..(cap - 1) |-> (seed + 5 * k) % 199] : seed \in {0, 83} }

\* memcpy(d + doff, s + soff, n)
memcpy(d, doff, s, soff, n) ==
    [k \in DOMAIN d |-> IF doff <= k /\ k < doff + n THEN s[soff + (k - doff)] ELSE d[k]]

\* memset(d + off, c, n)
memset(d, off, c, n) ==
    [k \in DOMAIN d |-> IF off <= k /\ k < off + n THEN c ELSE d[k]]

\* the grant for a request of all count elements, whatever the cursor: the
\* loop asking for vsetvl(count) where the code asks for vsetvl(count - i)
vsetvl_of_count(avl, sew) ==
    LET vlmax == vlen \div sew
        count == avl + cursor
    IN  IF count <= vlmax THEN {count}
        ELSE IF count < 2 * vlmax THEN ((count + 1) \div 2)..vlmax
        ELSE {vlmax}

\* __riscv_vsetvl_e<sew>m1(avl): the vl the hardware grants for a request of
\* avl elements when VLMAX = VLEN / sew (RVV 1.0, section 6.3)
vsetvl(avl, sew) ==
    LET vlmax == vlen \div sew
    IN  IF avl <= vlmax THEN {avl}
        ELSE IF avl < 2 * vlmax THEN ((avl + 1) \div 2)..vlmax
        ELSE {vlmax}

\* the byte range of buffer d that holds vl elements of w bytes from element i on,
\* replaced by the same range of s: a unit-stride vector load from s at element
\* i followed by a unit-stride vector store to d at element i
VectorMove(d, s, i, vl, w) == memcpy(d, i * w, s, i * w, vl * w)

\* riscv_memcpy_rvv without its remainder block
memcpy_rvv_no_remainder(d, s, n) == d

\* riscv_memcpy_rvv, lines 88-94: the bytes after the last whole 64-bit element
memcpy_rvv_remainder(d, s, n) ==
    LET remainder == n % 8
    IN  IF remainder # 0
        THEN memcpy(d, n - remainder, s, n - remainder, remainder)
        ELSE d

\* riscv_memcpy_prefetch, lines 132-138: the eight 64-bit moves of cache line i
CopyCacheLine(d, s, i) ==
    LET Word(buf, j) == [b \in 0..7 |-> buf[i * CACHELINE_SIZE + 8 * j + b]]
    IN  [k \in DOMAIN d |->
            IF i * CACHELINE_SIZE <= k /\ k < i * CACHELINE_SIZE + 8 * 8
            THEN Word(s, (k - i * CACHELINE_SIZE) \div 8)[k % 8]
            ELSE d[k]]

\* riscv_memcpy_prefetch, lines 141-147: the bytes after the last whole cache line
memcpy_prefetch_remainder(d, s, n) ==
    LET cache_lines == n \div CACHELINE_SIZE
        remainder == n % CACHELINE_SIZE
    IN  IF remainder > 0
        THEN memcpy(d, cache_lines * CACHELINE_SIZE, s, cache_lines * CACHELINE_SIZE,
                    remainder)
        ELSE d

CopyImpls == {"riscv_memcpy_rvv", "riscv_memcpy_prefetch",
              "riscv_memcpy_rvv (scalar build)", "riscv_memcpy_prefetch (fallback)"}

BulkStart(f, n, cap) ==
    /\ impl = f
    /\ size = n
    /\ vlen \in VLENs
    /\ cursor = 0
    /\ bpc = "loop"
    /\ cmp_result = 0

CopyInit ==
    /\ \E f \in CopyImpls, n \in 0..MaxCopyLen : BulkStart(f, n, MaxCopyLen + BufSlack)
    /\ src \in SourceBuffers(MaxCopyLen + BufSlack)
    /\ dst = FreshBuffer(MaxCopyLen + BufSlack)
    /\ pattern = <<>>
    /\ cmp_a = <<>>
    /\ cmp_b = <<>>
    /\ AtomIdle
    /\ HsIdle
    /\ CallIdle

\* riscv_memcpy_rvv, lines 81-86: one iteration of the vector loop
MemcpyRvvChunk ==
    /\ impl = "riscv_memcpy_rvv"
    /\ bpc = "loop"
    /\ cursor < size \div 8
    /\ \E vl \in vsetvl(size \div 8 - cursor, 64) :
          /\ dst' = VectorMove(dst, src, cursor, vl, 8)
          /\ cursor' = cursor + vl
    /\ UNCHANGED <<impl, vlen, size, pattern, src, cmp_a, cmp_b, bpc, cmp_result>>
    /\ OnlyBulk

\* riscv_memcpy_rvv, lines 88-95: the loop has ended; remainder and return
MemcpyRvvRemainder ==
    /\ impl = "riscv_memcpy_rvv"
    /\ bpc = "loop"
    /\ ~(cursor < size \div 8)
    /\ dst' = memcpy_rvv_remainder(dst, src, size)
    /\ bpc' = "done"
    /\ UNCHANGED <<impl, vlen, size, pattern, src, cmp_a, cmp_b, cursor, cmp_result>>
    /\ OnlyBulk

\* riscv_memcpy_prefetch, lines 126-139: one iteration of the cache line loop
MemcpyPrefetchLine ==
    /\ impl = "riscv_memcpy_prefetch"
    /\ bpc = "loop"
    /\ cursor < size \div CACHELINE_SIZE
    /\ dst' = CopyCacheLine(dst, src, cursor)
    /\ cursor' = cursor + 1
    /\ UNCHANGED <<impl, vlen, size, pattern, src, cmp_a, cmp_b, bpc, cmp_result>>
    /\ OnlyBulk

\* riscv_memcpy_prefetch, lines 141-148: the loop has ended; remainder and return
MemcpyPrefetchRemainder ==
    /\ impl = "riscv_memcpy_prefetch"
    /\ bpc = "loop"
    /\ ~(cursor < size \div CACHELINE_SIZE)
    /\ dst' = memcpy_prefetch_remainder(dst, src, size)
    /\ bpc' = "done"
    /\ UNCHANGED <<impl, vlen, size, pattern, src, cmp_a, cmp_b, cursor, cmp_result>>
    /\ OnlyBulk

\* the builds without the accelerated path: memcpy(dst, src, size)
MemcpyFallback ==
    /\ impl \in {"riscv_memcpy_rvv (scalar build)", "riscv_memcpy_prefetch (fallback)"}
    /\ bpc = "loop"
    /\ dst' = memcpy(dst, 0, src, 0, size)
    /\ bpc' = "done"
    /\ UNCHANGED <<impl, vlen, size, pattern, src, cmp_a, cmp_b, cursor, cmp_result>>
    /\ OnlyBulk

CopyNext ==
    \/ MemcpyRvvChunk
    \/ MemcpyRvvRemainder
    \/ MemcpyPrefetchLine
    \/ MemcpyPrefetchRemainder
    \/ MemcpyFallback

SpecCopy == CopyInit /\ [][CopyNext]_vars

\* C5: bulk copy.  When riscv_memcpy_rvv or riscv_memcpy_prefetch returns, in
\* the accelerated build as in the fallback build, dst[0..size) equals
\* src[0..size) and every byte of dst at index size or beyond is as it was
\* before the call: the buffer is the one the plain byte copy leaves.
CopyMatchesPlainCopy ==
    (impl \in CopyImpls /\ bpc = "done") =>
        /\ \A k \in DOMAIN dst :
              dst[k] = IF k < size THEN src[k] ELSE FreshBuffer(MaxCopyLen + BufSlack)[k]
        /\ dst = memcpy(FreshBuffer(MaxCopyLen + BufSlack), 0, src, 0, size)

\* C5 witness: the vector copy of 65 bytes has returned, after a loop of more
\* than one chunk and a one-byte remainder, and the bytes arrived
CopyWitness ==
    /\ impl = "riscv_memcpy_rvv"
    /\ bpc = "done"
    /\ size = 65
    /\ vlen = 128
    /\ cursor = 8
    /\ \A k \in 0..64 : dst[k] = src[k]
    /\ dst[65] # src[65]

\* a second reached case of C5: the cache line copy of 129 bytes has returned
CopyPrefetchWitness ==
    /\ impl = "riscv_memcpy_prefetch"
    /\ bpc = "done"
    /\ size = 129
    /\ cursor = 2
    /\ dst[128] = src[128]


(***************************************************************************)
(* riscv_memset_rvv: the vector build and the scalar build.                *)
(* The pattern argument is held as its four bytes, least significant       *)
(* first, which is the order a 32-bit store lays them out in memory;       *)
(* pattern & 0xFF is byte 0.                                               *)
(***************************************************************************)

\* the uint32_t patterns 0x00000000, 0xABABABAB, 0x01020304 and 0x00000100
Patterns ==
    { [b \in 0..3 |-> 0], [b \in 0..3 |-> 171],
      [b \in 0..3 |-> 4 - b], [b \in 0..3 |-> IF b = 1 THEN 1 ELSE 0] }

\* pattern & 0xFF
LowByte(pat) == pat[0]

\* __riscv_vmv_v_x_u32m1(pattern, vl); __riscv_vse32_v_u32m1(d32 + i, vp, vl):
\* vl 32-bit elements, each the pattern, stored from element i on
VectorSplat32(d, pat, i, vl) ==
    [k \in DOMAIN d |-> IF 4 * i <= k /\ k < 4 * (i + vl) THEN pat[k % 4] ELSE d[k]]

\* riscv_memset_rvv, lines 110-116: the bytes after the last whole 32-bit element
memset_rvv_remainder(d, pat, n) ==
    LET remainder == n % 4
    IN  IF remainder # 0
        THEN memset(d, n - remainder, LowByte(pat), remainder)
        ELSE d

FillImpls == {"riscv_memset_rvv", "riscv_memset_rvv (scalar build)"}

FillInit ==
    /\ \E f \in FillImpls, n \in 0..MaxFillLen : BulkStart(f, n, MaxFillLen + BufSlack)
    /\ pattern \in Patterns
    /\ dst = FreshBuffer(MaxFillLen + BufSlack)
    /\ src = <<>>
    /\ cmp_a = <<>>
    /\ cmp_b = <<>>
    /\ AtomIdle
    /\ HsIdle
    /\ CallIdle

\* riscv_memset_rvv, lines 103-108: one iteration of the vector loop
MemsetRvvChunk ==
    /\ impl = "riscv_memset_rvv"
    /\ bpc = "loop"
    /\ cursor < size \div 4
    /\ \E vl \in vsetvl(size \div 4 - cursor, 32) :
          /\ dst' = VectorSplat32(dst, pattern, cursor, vl)
          /\ cursor' = cursor + vl
    /\ UNCHANGED <<impl, vlen, size, pattern, src, cmp_a, cmp_b, bpc, cmp_result>>
    /\ OnlyBulk

\* riscv_memset_rvv, lines 110-117: the loop has ended; remainder and return
MemsetRvvRemainder ==
    /\ impl = "riscv_memset_rvv"
    /\ bpc = "loop"
    /\ ~(cursor < size \div 4)
    /\ dst' = memset_rvv_remainder(dst, pattern, size)
    /\ bpc' = "done"
    /\ UNCHANGED <<impl, vlen, size, pattern, src, cmp_a, cmp_b, cursor, cmp_result>>
    /\ OnlyBulk

\* the scalar build, lines 226-228: memset(dst, pattern & 0xFF, size)
MemsetScalar ==
    /\ impl = "riscv_memset_rvv (scalar build)"
    /\ bpc = "loop"
    /\ dst' = memset(dst, 0, LowByte(pattern), size)
    /\ bpc' = "done"
    /\ UNCHANGED <<impl, vlen, size, pattern, src, cmp_a, cmp_b, cursor, cmp_result>>
    /\ OnlyBulk

FillNext ==
    \/ MemsetRvvChunk
    \/ MemsetRvvRemainder
    \/ MemsetScalar

SpecFill == FillInit /\ [][FillNext]_vars

\* the buffer the scalar build of riscv_memset_rvv leaves for this call
ScalarFillOutcome == memset(FreshBuffer(MaxFillLen + BufSlack), 0, LowByte(pattern), size)

\* C4: bulk fill.  For every length and every 32-bit pattern, the buffer the
\* vector build of riscv_memset_rvv leaves holds the same bytes in
\* dst[0..size) as the buffer the scalar build leaves.
FillBuildsAgree ==
    (impl \in FillImpls /\ bpc = "done") =>
        \A k \in 0..(size - 1) : dst[k] = ScalarFillOutcome[k]

\* the two builds do agree for a pattern whose four bytes are equal, and
\* neither writes at index size or beyond
FillBuildsAgreeOnRepeatedByte ==
    (impl \in FillImpls /\ bpc = "done" /\ \A b \in 0..3 : pattern[b] = pattern[0])
        => dst = ScalarFillOutcome

(***************************************************************************)
(* riscv_memcmp_fast and riscv_memcmp_rvv.                                 *)
(* The C library's memcmp fixes only the sign of its result, so it is a    *)
(* choice between the byte difference and the bare sign.                   *)
(***************************************************************************)

Sign(x) == IF x > 0 THEN 1 ELSE IF x < 0 THEN -1 ELSE 0

RECURSIVE ByteScan(_, _, _, _)
\* for (j = from; j < to; ++j) if (a[j] != b[j]) return a[j] - b[j];
\* the bytes are unsigned char, promoted to int before the subtraction
ByteScan(a, b, from, to) ==
    IF from >= to THEN [found |-> FALSE, value |-> 0]
    ELSE IF a[from] # b[from] THEN [found |-> TRUE, value |-> a[from] - b[from]]
    ELSE ByteScan(a, b, from + 1, to)

\* memcmp(a, b, n): the values it may return
memcmp(a, b, n) ==
    LET r == ByteScan(a, b, 0, n)
    IN  IF r.found THEN {r.value, Sign(r.value)} ELSE {0}

\* a[i] != b[i] for the 64-bit words at index i
WordsDiffer(a, b, i) == \E k \in (8 * i)..(8 * i + 7) : a[k] # b[k]

Min(x, y) == IF x < y THEN x ELSE y

\* riscv_memcmp_fast, lines 184-193: the body of the qword loop at index i
memcmp_fast_word(a, b, i, n) ==
    IF WordsDiffer(a, b, i)
    THEN ByteScan(a, b, i * 8, Min((i + 1) * 8, n))
    ELSE [found |-> FALSE, value |-> 0]

\* riscv_memcmp_fast without its remainder block
memcmp_fast_no_remainder(a, b, n) == [found |-> FALSE, value |-> 0]

\* riscv_memcmp_fast, lines 196-206: the bytes after the last whole qword
memcmp_fast_remainder(a, b, n) ==
    LET qwords == n \div 8
        remainder == n % 8
    IN  IF remainder > 0
        THEN ByteScan(a, b, qwords * 8, qwords * 8 + remainder)
        ELSE [found |-> FALSE, value |-> 0]

\* riscv_memcmp_rvv, lines 166-176: the bytes after the last whole 64-bit element
memcmp_rvv_remainder(a, b, n) ==
    LET remainder == n % 8
    IN  IF remainder # 0
        THEN ByteScan(a, b, n - remainder, n)
        ELSE [found |-> FALSE, value |-> 0]

CmpImpls == {"riscv_memcmp_fast", "riscv_memcmp_rvv", "memcmp (fallback builds)"}

\* the first buffer of a comparison: bytes 1..198
CmpBase(cap) == [k \in 0..(cap - 1) |-> 1 + ((5 * k) % 198)]

\* buffer a with the byte at p, and then the byte at q, replaced: by 0 (below
\* every byte of a), by 255 (above every byte of a), or kept (a negative v, w)
Altered(a, p, v, q, w) ==
    [k \in DOMAIN a |->
        IF k = q /\ w >= 0 THEN w
        ELSE IF k = p /\ v >= 0 THEN v
        ELSE a[k]]

CompareInit ==
    /\ \E f \in CmpImpls, n \in 0..MaxCmpLen : BulkStart(f, n, MaxCmpLen + CmpSlack)
    /\ cmp_a = CmpBase(MaxCmpLen + CmpSlack)
    /\ \E p \in DOMAIN cmp_a, d \in {1, 8}, v \in {-1, 0, 255}, w \in {-1, 0, 255} :
          cmp_b = Altered(cmp_a, p, v, p + d, w)
    /\ pattern = <<>>
    /\ src = <<>>
    /\ dst = <<>>
    /\ AtomIdle
    /\ HsIdle
    /\ CallIdle

\* return the value of a scan that found a difference
CmpReturn(v) ==
    /\ cmp_result' = v
    /\ bpc' = "done"
    /\ UNCHANGED <<impl, vlen, size, pattern, src, dst, cmp_a, cmp_b, cursor>>
    /\ OnlyBulk

\* riscv_memcmp_fast, lines 183-194: one iteration of the qword loop
MemcmpFastWord ==
    /\ impl = "riscv_memcmp_fast"
    /\ bpc = "loop"
    /\ cursor < size \div 8
    /\ LET r == memcmp_fast_word(cmp_a, cmp_b, cursor, size)
       IN  IF r.found
           THEN CmpReturn(r.value)
           ELSE /\ cursor' = cursor + 1
                /\ UNCHANGED <<impl, vlen, size, pattern, src, dst, cmp_a, cmp_b,
                               bpc, cmp_result>>
                /\ OnlyBulk

\* riscv_memcmp_fast, lines 196-208: the loop has ended; remainder and return
MemcmpFastRemainder ==
    /\ impl = "riscv_memcmp_fast"
    /\ bpc = "loop"
    /\ ~(cursor < size \div 8)
    /\ LET r == memcmp_fast_remainder(cmp_a, cmp_b, size)
       IN  CmpReturn(IF r.found THEN r.value ELSE 0)

\* riscv_memcmp_rvv, lines 153-164 and 179-180: one iteration of the vector
\* loop; a chunk with a differing element leaves for memcmp(a, b, size)
MemcmpRvvChunk ==
    /\ impl = "riscv_memcmp_rvv"
    /\ bpc = "loop"
    /\ cursor < size \div 8
    /\ \E vl \in vsetvl(size \div 8 - cursor, 64) :
          IF \E e \in cursor..(cursor + vl - 1) : WordsDiffer(cmp_a, cmp_b, e)
          THEN \E v \in memcmp(cmp_a, cmp_b, size) : CmpReturn(v)
          ELSE /\ cursor' = cursor + vl
               /\ UNCHANGED <<impl, vlen, size, pattern, src, dst, cmp_a, cmp_b,
                              bpc, cmp_result>>
               /\ OnlyBulk

\* riscv_memcmp_rvv, lines 166-177: the loop has ended; remainder and return
MemcmpRvvRemainder ==
    /\ impl = "riscv_memcmp_rvv"
    /\ bpc = "loop"
    /\ ~(cursor < size \div 8)
    /\ LET r == memcmp_rvv_remainder(cmp_a, cmp_b, size)
       IN  CmpReturn(IF r.found THEN r.value ELSE 0)

\* the builds without the accelerated path: return memcmp(s1, s2, n)
MemcmpFallback ==
    /\ impl = "memcmp (fallback builds)"
    /\ bpc = "loop"
    /\ \E v \in memcmp(cmp_a, cmp_b, size) : CmpReturn(v)

CompareNext ==
    \/ MemcmpFastWord
    \/ MemcmpFastRemainder
    \/ MemcmpRvvChunk
    \/ MemcmpRvvRemainder
    \/ MemcmpFallback

SpecCompare == CompareInit /\ [][CompareNext]_vars

\* the indices below size at which the two compared ranges differ
DifferAt == {k \in 0..(size - 1) : cmp_a[k] # cmp_b[k]}

\* the lowest of them
FirstDifference == CHOOSE k \in DifferAt : \A m \in DifferAt : k <= m

\* C6: bulk compare.  When riscv_memcmp_fast or riscv_memcmp_rvv returns, the
\* result is exactly 0 if a[0..size) equals b[0..size), and otherwise has the
\* sign of a[i] - b[i] for the lowest index i at which the ranges differ.
CompareSignOfFirstDifference ==
    (impl \in CmpImpls /\ bpc = "done") =>
        IF DifferAt = {}
        THEN cmp_result = 0
        ELSE Sign(cmp_result) = Sign(cmp_a[FirstDifference] - cmp_b[FirstDifference])

\* C6 witness: riscv_memcmp_fast has returned for 17 bytes that differ first in
\* the last byte, past the whole qwords, and differ again beyond the length
CompareWitness ==
    /\ impl = "riscv_memcmp_fast"
    /\ bpc = "done"
    /\ size = 17
    /\ DifferAt = {16}
    /\ cmp_b[16] = 255
    /\ cmp_b[17] = 0
    /\ cmp_result < 0

\* a second reached case of C6: riscv_memcmp_rvv has returned a positive value
\* for ranges that differ first with a[i] > b[i] and later with a[i] < b[i]
CompareRvvWitness ==
    /\ impl = "riscv_memcmp_rvv"
    /\ bpc = "done"
    /\ size = 16
    /\ DifferAt = {3, 11}
    /\ cmp_b[3] = 0
    /\ cmp_b[11] = 255
    /\ cmp_result > 0

\* a third reached case of C6: equal ranges of a length that is no multiple of 8
CompareEqualWitness ==
    /\ impl = "riscv_memcmp_rvv"
    /\ bpc = "done"
    /\ size = 13
    /\ DifferAt = {}
    /\ cmp_b[13] # cmp_a[13]
    /\ cmp_result = 0

(***************************************************************************)
(* Scalar primitives.                                                      *)
(*                                                                         *)
(* A build is the set of macros it defines.  The __riscv_* macros are the  *)
(* toolchain's and exist only for a RISC-V target.                         *)
(*                                                                         *)
(* A 64-bit value is its four 16-bit limbs, least significant first, and a *)
(* 32-bit value its two; every operation keeps its width by dropping the   *)
(* carry out of its top limb.                                              *)
(***************************************************************************)

Builds ==
    {{}} \cup { {"XMRIG_RISCV"} \cup z : z \in SUBSET {"__riscv_zba", "__riscv_zbb", "__riscv_zbc"} }

Radix == 2 ^ 16

\* the limbs of a natural number below 2^31 as a value of n limbs
Limbs(x, n) == [k \in 1..n |-> IF k = 1 THEN x % Radix ELSE IF k = 2 THEN x \div Radix ELSE 0]

\* carry into limb k of the sum of the limb sequences a and b
RECURSIVE CarryIn(_, _, _)
CarryIn(a, b, k) ==
    IF k = 1 THEN 0 ELSE (a[k - 1] + b[k - 1] + CarryIn(a, b, k - 1)) \div Radix

\* a + b in the width of a (the same as the width of b)
AddLimbs(a, b) == [k \in DOMAIN a |-> (a[k] + b[k] + CarryIn(a, b, k)) % Radix]

\* v & 0xFFFFFFFF, as a 64-bit value
And32(v) == [k \in DOMAIN v |-> IF k <= 2 THEN v[k] ELSE 0]

\* the Zba instruction add.uw rd, rs1, rs2: rd = rs2 + zero-extend(rs1[31:0])
add_uw(rs1, rs2) == AddLimbs(And32(rs1), rs2)

\* riscv_add_uw(a, b) in the given build
riscv_add_uw(bld, a, b) ==
    IF "XMRIG_RISCV" \in bld
    THEN IF "__riscv_zba" \in bld
         THEN add_uw(a, b)
         ELSE And32(AddLimbs(And32(a), And32(b)))
    ELSE AddLimbs(And32(a), And32(b))

\* the uint64_t arguments: 0, 1, 0x7FFFFFFF, 0xFFFFFFFF, 0x1_0000_0000,
\* 0x1_0000_0001, 0xFFFFFFFF_00000000 and 0xFFFFFFFF_FFFFFFFF
Words64 ==
    { <<0, 0, 0, 0>>, <<1, 0, 0, 0>>, <<65535, 32767, 0, 0>>, <<65535, 65535, 0, 0>>,
      <<0, 0, 1, 0>>, <<1, 0, 1, 0>>, <<0, 0, 65535, 65535>>,
      <<65535, 65535, 65535, 65535>> }

CallStart(f) ==
    /\ fn = f
    /\ cpc = "call"
    /\ result2 = 0

AddUwInit ==
    /\ CallStart("riscv_add_uw")
    /\ build \in Builds
    /\ args \in [a : Words64, b : Words64]
    /\ result = <<0, 0, 0, 0>>
    /\ AtomIdle
    /\ HsIdle
    /\ BulkIdle

CallAddUw ==
    /\ fn = "riscv_add_uw"
    /\ cpc = "call"
    /\ result' = riscv_add_uw(build, args.a, args.b)
    /\ cpc' = "once"
    /\ UNCHANGED <<build, fn, args, result2>>
    /\ OnlyCalls

AddUwNext == CallAddUw

SpecAddUw == AddUwInit /\ [][AddUwNext]_vars

\* ((a mod 2^32) + (b mod 2^32)) mod 2^32, zero-extended to 64 bits
AddZeroExtend32(a, b) ==
    LET low == a[1] + b[1]
        high == a[2] + b[2] + low \div Radix
    IN  <<low % Radix, high % Radix, 0, 0>>

\* C7: addZeroExtend32.  In every build variant riscv_add_uw(a, b) returns
\* ((a mod 2^32) + (b mod 2^32)) mod 2^32 zero-extended to 64 bits, so the
\* result is below 2^32.
AddUwTruncatesInEveryBuild ==
    (fn = "riscv_add_uw" /\ cpc = "once") =>
        /\ result = AddZeroExtend32(args.a, args.b)
        /\ result[3] = 0 /\ result[4] = 0

\* the RISC-V build without Zba is the one variant that does return it
AddUwScalarTruncates ==
    (fn = "riscv_add_uw" /\ cpc = "once" /\ "XMRIG_RISCV" \in build
        /\ "__riscv_zba" \notin build)
        => result = AddZeroExtend32(args.a, args.b)

(***************************************************************************)
(* riscv_rotr32.  A register value is the set of its bit positions that    *)
(* hold 1, bit 0 the least significant.                                    *)
(***************************************************************************)

Bits32 == 0..31

\* logical shift right of a 32-bit value
ShiftRight32(x, n) == {k - n : k \in {m \in x : m >= n}}

\* logical shift left of a 32-bit value by n < 32, the bits beyond bit 31 dropped
ShiftLeft32(x, n) == {k + n : k \in {m \in x : m + n <= 31}}

\* the uint32_t arguments: 0, 1, 0x80000000, 0x80000001, 0x00020022,
\* 0x7FFFFFFF and 0xFFFFFFFF
Words32 == { {}, {0}, {31}, {0, 31}, {1, 5, 17}, 0..30, 0..31 }

\* x << n as C evaluates it for a uint32_t x.  For n >= 32 the behaviour is
\* undefined, and the result is one of the two a shift instruction gives: a
\* shifter that drops every bit gives 0, a shifter that uses the low five
\* bits of n (sllw, x86 shl) gives x << (n mod 32).
CShiftLeft32(x, n) ==
    IF n < 32 THEN {ShiftLeft32(x, n)}
    ELSE {{}, ShiftLeft32(x, n % 32)}

\* the 64-bit register that holds the uint32_t operand x of an asm statement:
\* bits 0..31 are x; the RV64 calling convention keeps a 32-bit value
\* sign-extended in its register, and nothing in the asm constraint fixes
\* the upper half, so it is sign-extended or zero
RegisterHolding32(x) ==
    { x \cup (IF 31 \in x THEN 32..63 ELSE {}), x }

\* ror rd, rs1, rs2 on RV64: rotate the 64-bit rs1 right by rs2[5:0]
ror(rs1, shamt) == {(k - (shamt % 64)) % 64 : k \in rs1}

\* the low 32 bits of a register: the uint32_t output operand
Low32(reg) == reg \cap Bits32

\* riscv_rotr32(x, r) in the given build: the values it may return
riscv_rotr32(bld, x, r) ==
    IF "XMRIG_RISCV" \in bld /\ "__riscv_zbb" \in bld
    THEN {Low32(ror(reg, r)) : reg \in RegisterHolding32(x)}
    ELSE {ShiftRight32(x, r) \cup hi : hi \in CShiftLeft32(x, 32 - r)}

Rotr32Init ==
    /\ CallStart("riscv_rotr32")
    /\ build \in Builds
    /\ args \in [x : Words32, r : 0..31]
    /\ result = {}
    /\ AtomIdle
    /\ HsIdle
    /\ BulkIdle

\* y = riscv_rotr32(x, r)
CallRotr32 ==
    /\ fn = "riscv_rotr32"
    /\ cpc = "call"
    /\ result' \in riscv_rotr32(build, args.x, args.r)
    /\ cpc' = "once"
    /\ UNCHANGED <<build, fn, args, result2>>
    /\ OnlyCalls

\* riscv_rotr32(y, 32 - r), for 0 < r < 32
CallRotr32Back ==
    /\ fn = "riscv_rotr32"
    /\ cpc = "once"
    /\ args.r > 0
    /\ result2' \in riscv_rotr32(build, result, 32 - args.r)
    /\ cpc' = "twice"
    /\ UNCHANGED <<build, fn, args, result>>
    /\ OnlyCalls

Rotr32Next ==
    \/ CallRotr32
    \/ CallRotr32Back

SpecRotr32 == Rotr32Init /\ [][Rotr32Next]_vars

\* x rotated right by r within 32 bits
RotateRight32(x, r) == {(k - r) % 32 : k \in x}

\* C8: 32-bit rotate right.  riscv_rotr32(x, 0) is x; for 0 < r < 32,
\* riscv_rotr32(riscv_rotr32(x, r), 32 - r) is x; and the hardware-rotate
\* form and the two-shift form return the same value, the rotation of x.
Rotr32RoundTrip ==
    (fn = "riscv_rotr32") =>
        /\ (cpc = "once" /\ args.r = 0) => result = args.x
        /\ (cpc = "twice") => result2 = args.x
        /\ (cpc = "once" /\ args.r > 0) => result = RotateRight32(args.x, args.r)

\* the round trip alone, in the builds that use the `ror` instruction
Rotr32HardwareRoundTrip ==
    (fn = "riscv_rotr32" /\ cpc = "twice" /\ "XMRIG_RISCV" \in build
        /\ "__riscv_zbb" \in build)
        => result2 = args.x

\* the two-shift form does satisfy all of C8
Rotr32ScalarRotates ==
    (fn = "riscv_rotr32" /\ ~("XMRIG_RISCV" \in build /\ "__riscv_zbb" \in build)) =>
        /\ (cpc = "once" /\ args.r = 0) => result = args.x
        /\ (cpc = "twice") => result2 = args.x
        /\ (cpc = "once" /\ args.r > 0) => result = RotateRight32(args.x, args.r)

\* the `ror` form does return x for r = 0
Rotr32HardwareIdentity ==
    (fn = "riscv_rotr32" /\ cpc = "once" /\ args.r = 0 /\ "XMRIG_RISCV" \in build
        /\ "__riscv_zbb" \in build)
        => result = args.x

(***************************************************************************)
(* riscv_optimal_init_threads and get_optimal_cpu_core, as the XMRIG_RISCV *)
(* build defines them.                                                     *)
(***************************************************************************)

\* bounds
MaxAvailable == 64      \* every count 0..MaxAvailable is given, besides the large ones
MaxThreadId == 9        \* every thread id -MaxThreadId..MaxThreadId is given
MaxProcs == 5           \* sysconf reports every count -2..MaxProcs

\* a limb sequence times 3, in n limbs: the carry out of limb n is dropped
RECURSIVE TimesThreeCarry(_, _)
TimesThreeCarry(a, k) ==
    IF k = 1 THEN 0
    ELSE ((IF k - 1 \in DOMAIN a THEN a[k - 1] ELSE 0) * 3 + TimesThreeCarry(a, k - 1))
            \div Radix

TimesThree(a, n) ==
    [k \in 1..n |-> ((IF k \in DOMAIN a THEN a[k] ELSE 0) * 3 + TimesThreeCarry(a, k)) % Radix]

\* a limb sequence divided by 4, rounded down
DividedByFour(a) ==
    [k \in DOMAIN a |->
        a[k] \div 4 + (IF k + 1 \in DOMAIN a THEN (a[k + 1] % 4) * (Radix \div 4) ELSE 0)]

IsZero(a) == \A k \in DOMAIN a : a[k] = 0

\* a limb sequence widened (with zero limbs) or cut to n limbs
Resize(a, n) == [k \in 1..n |-> IF k \in DOMAIN a THEN a[k] ELSE 0]

\* riscv_optimal_init_threads(available_threads): uint32_t arithmetic throughout
riscv_optimal_init_threads(available_threads) ==
    LET recommended == DividedByFour(TimesThree(available_threads, 2))
    IN  IF ~IsZero(recommended) THEN recommended ELSE Limbs(1, 2)

\* the uint32_t counts given: 0..MaxAvailable, 100, 0x55555555 (the largest
\* count whose triple fits 32 bits), 0x55555556, 0x80000000 and 0xFFFFFFFF
AvailableCounts ==
    {Limbs(n, 2) : n \in 0..MaxAvailable} \cup
    { Limbs(100, 2), <<21845, 21845>>, <<21846, 21845>>, <<0, 32768>>, <<65535, 65535>> }

InitThreadsInit ==
    /\ CallStart("riscv_optimal_init_threads")
    /\ build = {"XMRIG_RISCV"}
    /\ args \in [available_threads : AvailableCounts]
    /\ result = <<0, 0>>
    /\ AtomIdle
    /\ HsIdle
    /\ BulkIdle

CallInitThreads ==
    /\ fn = "riscv_optimal_init_threads"
    /\ cpc = "call"
    /\ result' = riscv_optimal_init_threads(args.available_threads)
    /\ cpc' = "once"
    /\ UNCHANGED <<build, fn, args, result2>>
    /\ OnlyCalls

\* x % y as C evaluates it for y > 0: the remainder has the sign of x
CRemainder(x, y) == IF x >= 0 THEN x % y ELSE 0 - ((0 - x) % y)

\* a faulty version without the modulo, as the build without XMRIG_RISCV has it
get_optimal_cpu_core_identity(thread_id, reported) == thread_id

\* get_optimal_cpu_core(thread_id), with sysconf(_SC_NPROCESSORS_ONLN) = reported
get_optimal_cpu_core(thread_id, reported) ==
    LET nprocs == IF reported <= 0 THEN 1 ELSE reported
    IN  CRemainder(thread_id, nprocs)

CpuCoreInit ==
    /\ CallStart("get_optimal_cpu_core")
    /\ build = {"XMRIG_RISCV"}
    /\ args \in [thread_id : (0 - MaxThreadId)..MaxThreadId, nprocs : (0 - 2)..MaxProcs]
    /\ result = 0
    /\ AtomIdle
    /\ HsIdle
    /\ BulkIdle

CallCpuCore ==
    /\ fn = "get_optimal_cpu_core"
    /\ cpc = "call"
    /\ result' = get_optimal_cpu_core(args.thread_id, args.nprocs)
    /\ cpc' = "once"
    /\ UNCHANGED <<build, fn, args, result2>>
    /\ OnlyCalls

InitThreadsNext == CallInitThreads

SpecInitThreads == InitThreadsInit /\ [][InitThreadsNext]_vars

CpuCoreNext == CallCpuCore

SpecCpuCore == CpuCoreInit /\ [][CpuCoreNext]_vars

\* max(1, floor(available * 3 / 4)) over the integers, in three limbs
RecommendedThreadCount(available) ==
    LET q == DividedByFour(TimesThree(available, 3))
    IN  IF IsZero(q) THEN Limbs(1, 3) ELSE q

\* C9: recommended thread count.  For every 32-bit count,
\* riscv_optimal_init_threads returns max(1, floor(available * 3 / 4))
\* computed over the integers, so at least 1; 0 gives 1, 1 gives 1, 8 gives 6,
\* 16 gives 12 and 100 gives 75.
InitThreadsIsThreeQuarters ==
    (fn = "riscv_optimal_init_threads" /\ cpc = "once") =>
        /\ Resize(result, 3) = RecommendedThreadCount(args.available_threads)
        /\ ~IsZero(result)
        /\ args.available_threads = Limbs(0, 2) => result = Limbs(1, 2)
        /\ args.available_threads = Limbs(1, 2) => result = Limbs(1, 2)
        /\ args.available_threads = Limbs(8, 2) => result = Limbs(6, 2)
        /\ args.available_threads = Limbs(16, 2) => result = Limbs(12, 2)
        /\ args.available_threads = Limbs(100, 2) => result = Limbs(75, 2)

\* the claim does hold for every count up to 0x55555555, the counts whose
\* triple fits 32 bits
InitThreadsBelowOverflow ==
    (fn = "riscv_optimal_init_threads" /\ cpc = "once"
        /\ TimesThree(args.available_threads, 3)[3] = 0)
        => /\ Resize(result, 3) = RecommendedThreadCount(args.available_threads)
           /\ ~IsZero(result)

Max(x, y) == IF x > y THEN x ELSE y

\* C10: core index.  For every thread id t >= 0 and every reported
\* online-processor count n, zero and negative counts included,
\* get_optimal_cpu_core(t) returns t mod max(1, n); t = 5 with n = 4 gives 1
\* and every t with n = 0 gives 0.
CpuCoreIsThreadModProcs ==
    (fn = "get_optimal_cpu_core" /\ cpc = "once" /\ args.thread_id >= 0) =>
        /\ result = args.thread_id % Max(1, args.nprocs)
        /\ (args.thread_id = 5 /\ args.nprocs = 4) => result = 1
        /\ args.nprocs = 0 => result = 0

\* C10 witness: the call for thread 5 on 4 processors has returned 1
CpuCoreWitness ==
    /\ fn = "get_optimal_cpu_core"
    /\ cpc = "once"
    /\ args.thread_id = 5
    /\ args.nprocs = 4
    /\ result = 1

\* a second reached case of C10: a negative processor count, clamped
CpuCoreClampWitness ==
    /\ fn = "get_optimal_cpu_core"
    /\ cpc = "once"
    /\ args.thread_id = 7
    /\ args.nprocs < 0
    /\ result = 0

(***************************************************************************)
(* Compile-time selection of the bit-manipulation primitives               *)
(* (riscv_crypto.h:56-60, 97-178).                                         *)
(*                                                                         *)
(* The preprocessor defines HAVE_RISCV_BIT_MANIP first and then, for each  *)
(* primitive the translation unit uses, keeps one of the two bodies of the *)
(* primitive.  The binary is the set of bodies kept: for each primitive    *)
(* the instruction its asm statement emits, or "scalar" for the C body.    *)
(***************************************************************************)

BitManipPrimitives ==
    {"riscv_rotr32", "riscv_rotr64", "riscv_popcount", "riscv_ctz", "riscv_add_uw"}

\* the value of the macro HAVE_RISCV_BIT_MANIP in the given build
HAVE_RISCV_BIT_MANIP(bld) ==
    IF "XMRIG_RISCV" \in bld
    THEN IF "__riscv_zba" \in bld /\ "__riscv_zbb" \in bld /\ "__riscv_zbc" \in bld
         THEN 1
         ELSE 0
    ELSE 0

\* the instruction of the asm statement in the hardware body of primitive f
AsmInstruction(f) ==
    CASE f = "riscv_rotr32" -> "ror"
      [] f = "riscv_rotr64" -> "ror"
      [] f = "riscv_popcount" -> "cpop"
      [] f = "riscv_ctz" -> "ctz"
      [] f = "riscv_add_uw" -> "add.uw"

\* the macro the #if in the body of primitive f tests
GuardMacro(f) ==
    IF f = "riscv_add_uw" THEN "__riscv_zba" ELSE "__riscv_zbb"

\* every primitive tested on its neighbour's macro
SelectedBody_zbb_everywhere(bld, f) ==
    IF "XMRIG_RISCV" \in bld /\ "__riscv_zbb" \in bld THEN AsmInstruction(f) ELSE "scalar"

\* the body of primitive f that the preprocessor keeps in the given build
SelectedBody(bld, f) ==
    IF "XMRIG_RISCV" \in bld
    THEN IF GuardMacro(f) \in bld THEN AsmInstruction(f) ELSE "scalar"
    ELSE "scalar"

BitManipInit ==
    /\ CallStart("riscv_crypto.h")
    /\ build \in Builds
    /\ args = <<>>
    /\ result = [flag |-> -1, bodies |-> <<>>]
    /\ AtomIdle
    /\ HsIdle
    /\ BulkIdle

\* #if defined(__riscv_zba) && ... #define HAVE_RISCV_BIT_MANIP
DefineBitManipFlag ==
    /\ fn = "riscv_crypto.h"
    /\ cpc = "call"
    /\ result' = [result EXCEPT !.flag = HAVE_RISCV_BIT_MANIP(build)]
    /\ cpc' = "once"
    /\ UNCHANGED <<build, fn, args, result2>>
    /\ OnlyCalls

\* the definition of primitive f is preprocessed and compiled
CompilePrimitive(f) ==
    /\ fn = "riscv_crypto.h"
    /\ cpc = "once"
    /\ f \notin DOMAIN result.bodies
    /\ result' = [result EXCEPT !.bodies =
                     [g \in DOMAIN result.bodies \cup {f} |->
                         IF g = f THEN SelectedBody(build, f) ELSE result.bodies[g]]]
    /\ UNCHANGED <<build, fn, args, result2, cpc>>
    /\ OnlyCalls

BitManipNext ==
    \/ DefineBitManipFlag
    \/ \E f \in BitManipPrimitives : CompilePrimitive(f)

SpecBitManip == BitManipInit /\ [][BitManipNext]_vars

\* the primitives whose hardware body is in the binary
HardwareBodies ==
    {f \in DOMAIN result.bodies : result.bodies[f] # "scalar"}

\* C11: bitManipGating.  For every combination of __riscv_zba, __riscv_zbb
\* and __riscv_zbc, a hardware-instruction body of a bit-manipulation
\* primitive is in the binary only if HAVE_RISCV_BIT_MANIP is 1; when the
\* flag is 0 every primitive uses its scalar body.
BitManipGatedByFlag ==
    (fn = "riscv_crypto.h" /\ cpc = "once") =>
        /\ HardwareBodies # {} => result.flag = 1
        /\ result.flag = 0 => \A f \in DOMAIN result.bodies : result.bodies[f] = "scalar"

\* the B sub-extension that provides an instruction (RISC-V bit-manipulation
\* ISA: ror, cpop and ctz are Zbb, add.uw is Zba)
ProvidedBy(instruction) ==
    IF instruction = "add.uw" THEN "__riscv_zba" ELSE "__riscv_zbb"

\* C11 as the code has it: a hardware body is in the binary exactly when the
\* build is a RISC-V build that defines the macro of the sub-extension
\* providing the body's instruction; so with the flag at 1 every primitive
\* uses its hardware body, and outside a RISC-V build every one is scalar.
BitManipGatedByOwnExtension ==
    (fn = "riscv_crypto.h" /\ cpc = "once") =>
        /\ \A f \in DOMAIN result.bodies :
               /\ result.bodies[f] # "scalar" => ProvidedBy(result.bodies[f]) \in build
               /\ result.bodies[f] = "scalar" =>
                      ("XMRIG_RISCV" \notin build \/ ProvidedBy(AsmInstruction(f)) \notin build)
        /\ result.flag = 1 => HardwareBodies = DOMAIN result.bodies
        /\ result.flag = 1 <=> {"__riscv_zba", "__riscv_zbb", "__riscv_zbc"} \subseteq build

\* every primitive is compiled in a build with Zbb alone: the flag is 0 and
\* four hardware bodies are in the binary
BitManipWitness ==
    /\ fn = "riscv_crypto.h" /\ cpc = "once"
    /\ build = {"XMRIG_RISCV", "__riscv_zbb"}
    /\ DOMAIN result.bodies = BitManipPrimitives
    /\ result.flag = 0
    /\ HardwareBodies = BitManipPrimitives \ {"riscv_add_uw"}

\* every primitive is compiled in a build with all three sub-extensions
BitManipFullWitness ==
    /\ fn = "riscv_crypto.h" /\ cpc = "once"
    /\ result.flag = 1
    /\ HardwareBodies = BitManipPrimitives

(***************************************************************************)
(* aligned_memcpy_opt (RxDataset_riscv.h:73-93, 115).                      *)
(*                                                                         *)
(* dst and src are ranges of a larger memory: the buffers of the model     *)
(* extend DatasetSlack bytes past the largest size, so that the bytes next *)
(* to the caller's range are part of the state.  One loop iteration is one *)
(* step; the loop variable i counts 64-bit words.  prefetch_dataset_item   *)
(* issues prefetch hints only and changes no state.                        *)
(***************************************************************************)

\* bounds
MaxDatasetLen == 72    \* the largest size given to aligned_memcpy_opt
DatasetSlack == 56     \* bytes of each buffer beyond the largest size

DatasetImpls == {"aligned_memcpy_opt", "aligned_memcpy_opt (fallback)"}

\* d[i] = s[i]; ... d[i+7] = s[i+7]; for uint64_t pointers d and s
CopyEightWords(d, s, i) ==
    [k \in DOMAIN d |-> IF 8 * i <= k /\ k < 8 * (i + 8) THEN s[k] ELSE d[k]]

DatasetCopyInit ==
    /\ impl \in DatasetImpls
    /\ size \in 0..MaxDatasetLen
    /\ vlen = 0
    /\ cursor = 0
    /\ bpc = "loop"
    /\ cmp_result = 0
    /\ src \in SourceBuffers(MaxDatasetLen + DatasetSlack)
    /\ dst = FreshBuffer(MaxDatasetLen + DatasetSlack)
    /\ pattern = <<>>
    /\ cmp_a = <<>>
    /\ cmp_b = <<>>
    /\ AtomIdle
    /\ HsIdle
    /\ CallIdle

\* lines 80-92: one iteration of the loop over chunks = size / 8 words
DatasetCopyLine ==
    /\ impl = "aligned_memcpy_opt"
    /\ bpc = "loop"
    /\ cursor < size \div 8
    /\ dst' = CopyEightWords(dst, src, cursor)
    /\ cursor' = cursor + 8
    /\ UNCHANGED <<impl, vlen, size, pattern, src, cmp_a, cmp_b, bpc, cmp_result>>
    /\ OnlyBulk

\* line 93: the loop has ended and the function returns
DatasetCopyReturn ==
    /\ impl = "aligned_memcpy_opt"
    /\ bpc = "loop"
    /\ ~(cursor < size \div 8)
    /\ bpc' = "done"
    /\ UNCHANGED <<impl, vlen, size, pattern, src, dst, cmp_a, cmp_b, cursor, cmp_result>>
    /\ OnlyBulk

\* line 115: memcpy(dst, src, size)
DatasetCopyFallback ==
    /\ impl = "aligned_memcpy_opt (fallback)"
    /\ bpc = "loop"
    /\ dst' = memcpy(dst, 0, src, 0, size)
    /\ bpc' = "done"
    /\ UNCHANGED <<impl, vlen, size, pattern, src, cmp_a, cmp_b, cursor, cmp_result>>
    /\ OnlyBulk

DatasetCopyNext ==
    \/ DatasetCopyLine
    \/ DatasetCopyReturn
    \/ DatasetCopyFallback

SpecDatasetCopy == DatasetCopyInit /\ [][DatasetCopyNext]_vars

\* the indices of src the call has read so far: the loop reads s[i] .. s[i+7]
\* in each iteration it runs, memcpy reads the first size bytes
SrcBytesRead ==
    IF impl = "aligned_memcpy_opt" THEN 0..(8 * cursor - 1)
    ELSE IF bpc = "done" THEN 0..(size - 1)
    ELSE {}

\* C12: datasetCopyFrame.  For every size, after aligned_memcpy_opt(dst, src,
\* size) the bytes dst[0..size) equal src[0..size), every byte of dst at index
\* size or beyond is unchanged and no byte of src at index size or beyond was
\* read: the RISC-V build leaves what the fallback's plain copy leaves.
DatasetCopyMatchesPlainCopy ==
    (impl \in DatasetImpls /\ bpc = "done") =>
        /\ \A k \in 0..(size - 1) : dst[k] = src[k]
        /\ \A k \in DOMAIN dst :
              k >= size => dst[k] = FreshBuffer(MaxDatasetLen + DatasetSlack)[k]
        /\ \A k \in SrcBytesRead : k < size
        /\ dst = memcpy(FreshBuffer(MaxDatasetLen + DatasetSlack), 0, src, 0, size)

\* the fallback does all of C12, and the RISC-V build does for the sizes that
\* are a multiple of 64
DatasetCopyWholeLines ==
    (impl \in DatasetImpls /\ bpc = "done"
        /\ (impl = "aligned_memcpy_opt" => size % 64 = 0)) =>
        /\ dst = memcpy(FreshBuffer(MaxDatasetLen + DatasetSlack), 0, src, 0, size)
        /\ \A k \in SrcBytesRead : k < size

\* the RISC-V build always copies whole groups of eight words and nothing else
DatasetCopyRoundsUp ==
    (impl = "aligned_memcpy_opt" /\ bpc = "done") =>
        dst = memcpy(FreshBuffer(MaxDatasetLen + DatasetSlack), 0, src, 0,
                     64 * ((size \div 8 + 7) \div 8))

\* the copy is complete; violated, as the bytes after the last whole word are
\* never copied (size 1 copies nothing)
DatasetCopyCopiesTail ==
    (impl = "aligned_memcpy_opt" /\ bpc = "done") =>
        \A k \in 0..(size - 1) : dst[k] = src[k]

\* no byte past the range is written; violated, as the last group of eight
\* words is copied whole (size 8 writes 64 bytes)
DatasetCopyKeepsFrame ==
    (impl = "aligned_memcpy_opt" /\ bpc = "done") =>
        \A k \in DOMAIN dst :
            k >= size => dst[k] = FreshBuffer(MaxDatasetLen + DatasetSlack)[k]

(***************************************************************************)
(* The vector loops of riscv_rvv.h (lines 70-181) together:                *)
(* riscv_memcpy_rvv, riscv_memset_rvv, riscv_xor_rvv and riscv_memcmp_rvv  *)
(* in the vector build.  riscv_xor_rvv computes a ^= b; its operand a is   *)
(* dst and its operand b is src.                                           *)
(*                                                                         *)
(* Each call is synchronous: the calling thread keeps running the loop, so *)
(* a step that is enabled is eventually taken.                             *)
(***************************************************************************)

\* bound
MaxXorLen == 49     \* the largest size given to riscv_xor_rvv

\* x ^ y for bytes x and y
XorByte(x, y) ==
    LET B(b) == ((x \div (2 ^ b)) + (y \div (2 ^ b))) % 2
    IN  B(0) + 2 * B(1) + 4 * B(2) + 8 * B(3) + 16 * B(4) + 32 * B(5) + 64 * B(6) + 128 * B(7)

\* a[k] ^= b[k] for the n bytes from off on
xor_bytes(a, b, off, n) ==
    [k \in DOMAIN a |-> IF off <= k /\ k < off + n THEN XorByte(a[k], b[k]) ELSE a[k]]

\* riscv_xor_rvv, lines 127-131: vl 64-bit elements of a and of b from element
\* i on are loaded, xor-ed and stored to a
VectorXor64(a, b, i, vl) == xor_bytes(a, b, 8 * i, 8 * vl)

\* riscv_xor_rvv, lines 135-143: the bytes after the last whole 64-bit element
xor_rvv_remainder(a, b, n) ==
    LET remainder == n % 8
    IN  IF remainder # 0
        THEN xor_bytes(a, b, n - remainder, remainder)
        ELSE a

XorInit ==
    /\ \E n \in 0..MaxXorLen : BulkStart("riscv_xor_rvv", n, MaxXorLen + BufSlack)
    /\ src \in SourceBuffers(MaxXorLen + BufSlack)
    /\ dst = FreshBuffer(MaxXorLen + BufSlack)
    /\ pattern = <<>>
    /\ cmp_a = <<>>
    /\ cmp_b = <<>>
    /\ AtomIdle
    /\ HsIdle
    /\ CallIdle

\* riscv_xor_rvv, lines 126-133: one iteration of the vector loop
XorRvvChunk ==
    /\ impl = "riscv_xor_rvv"
    /\ bpc = "loop"
    /\ cursor < size \div 8
    /\ \E vl \in vsetvl(size \div 8 - cursor, 64) :
          /\ dst' = VectorXor64(dst, src, cursor, vl)
          /\ cursor' = cursor + vl
    /\ UNCHANGED <<impl, vlen, size, pattern, src, cmp_a, cmp_b, bpc, cmp_result>>
    /\ OnlyBulk

\* riscv_xor_rvv, lines 135-144: the loop has ended; remainder and return
XorRvvRemainder ==
    /\ impl = "riscv_xor_rvv"
    /\ bpc = "loop"
    /\ ~(cursor < size \div 8)
    /\ dst' = xor_rvv_remainder(dst, src, size)
    /\ bpc' = "done"
    /\ UNCHANGED <<impl, vlen, size, pattern, src, cmp_a, cmp_b, cursor, cmp_result>>
    /\ OnlyBulk

VectorImpls == {"riscv_memcpy_rvv", "riscv_memset_rvv", "riscv_xor_rvv", "riscv_memcmp_rvv"}

VectorLoopsInit ==
    /\ \/ CopyInit
       \/ FillInit
       \/ XorInit
       \/ CompareInit
    /\ impl \in VectorImpls

VectorLoopsNext ==
    \/ MemcpyRvvChunk
    \/ MemcpyRvvRemainder
    \/ MemsetRvvChunk
    \/ MemsetRvvRemainder
    \/ XorRvvChunk
    \/ XorRvvRemainder
    \/ MemcmpRvvChunk
    \/ MemcmpRvvRemainder

SpecVectorLoops == VectorLoopsInit /\ [][VectorLoopsNext]_vars /\ WF_vars(VectorLoopsNext)

\* the element width of the function's vector loop, in bytes
ElementWidth == IF impl = "riscv_memset_rvv" THEN 4 ELSE 8

\* count: size / element width
ElementCount == size \div ElementWidth

\* the indices of the bytes after the last whole element
TailBytes == (ElementWidth * ElementCount)..(size - 1)

\* the step that ends the call runs scalar code on the tail only: it writes no
\* byte outside the tail, and the value a comparison returns is decided by the
\* tail bytes
ScalarCodeOnTailOnly ==
    /\ \A k \in DOMAIN dst : dst'[k] # dst[k] => k \in TailBytes
    /\ impl = "riscv_memcmp_rvv" =>
           (cmp_result' # 0 <=> \E k \in TailBytes : cmp_a[k] # cmp_b[k])

\* a step of the vector loop moves the cursor forward by a chunk of at least
\* one element and at most the elements that remain
CursorAdvances ==
    cursor' # cursor => /\ cursor' - cursor >= 1
                        /\ cursor' - cursor <= ElementCount - cursor

\* C13: vectorLoopTermination.  In riscv_memcpy_rvv, riscv_memset_rvv,
\* riscv_xor_rvv and riscv_memcmp_rvv the cursor i strictly increases by a
\* chunk of 1 .. count - i elements and never exceeds count, the loop ends
\* (after at most count iterations, as every iteration advances the cursor)
\* for every length, it ends with the cursor exactly at count, and only the
\* tail of size mod element width bytes is then handled by scalar code.
VectorLoopsEndAtCount ==
    /\ [](impl \in VectorImpls => cursor <= ElementCount)
    /\ [][CursorAdvances]_vars
    /\ [](bpc = "done" => cursor = ElementCount)
    /\ [][bpc = "loop" /\ bpc' = "done" => ScalarCodeOnTailOnly]_vars
    /\ <>(bpc = "done")

\* riscv_memcmp_rvv has left its loop at a chunk that holds a differing
\* element: the cursor is at the start of that chunk, no element before it
\* differs, and the value returned is memcmp's for the whole buffers
LeftAtDifference ==
    /\ impl = "riscv_memcmp_rvv"
    /\ cursor < ElementCount
    /\ \E e \in cursor..(ElementCount - 1) : WordsDiffer(cmp_a, cmp_b, e)
    /\ \A e \in 0..(cursor - 1) : ~WordsDiffer(cmp_a, cmp_b, e)
    /\ cmp_result \in memcmp(cmp_a, cmp_b, size)

\* C13 as the code has it: as above for the cursor and for termination; the
\* loop ends with the cursor at count and leaves only the tail to scalar code
\* in riscv_memcpy_rvv, riscv_memset_rvv and riscv_xor_rvv, and in
\* riscv_memcmp_rvv unless a chunk holds a differing element; such a chunk
\* ends the loop with the cursor below count and memcmp compares it all.
VectorLoopsTerminate ==
    /\ [](impl \in VectorImpls => cursor <= ElementCount)
    /\ [][CursorAdvances]_vars
    /\ [](bpc = "done" => (cursor = ElementCount \/ LeftAtDifference))
    /\ [](bpc = "done" /\ impl # "riscv_memcmp_rvv" => cursor = ElementCount)
    /\ [][bpc = "loop" /\ bpc' = "done" /\ cursor = ElementCount => ScalarCodeOnTailOnly]_vars
    /\ <>(bpc = "done")

\* riscv_xor_rvv of 49 bytes has returned after three chunks of two elements
\* and a one-byte remainder
VectorLoopsWitness ==
    /\ impl = "riscv_xor_rvv"
    /\ bpc = "done"
    /\ size = 49
    /\ vlen = 128
    /\ cursor = 6
    /\ dst[48] = XorByte(FreshBuffer(MaxXorLen + BufSlack)[48], src[48])
    /\ dst[49] = FreshBuffer(MaxXorLen + BufSlack)[49]

\* riscv_memcmp_rvv has returned from a loop that ran to the element count
VectorLoopsCompareWitness ==
    /\ impl = "riscv_memcmp_rvv"
    /\ bpc = "done"
    /\ size = 17
    /\ cursor = 2
    /\ cmp_result # 0

\* riscv_memcmp_rvv has returned from a loop it left at a differing element
VectorLoopsEarlyExitWitness ==
    /\ bpc = "done"
    /\ size = 17
    /\ LeftAtDifference

(***************************************************************************)
(* The range of the core index get_optimal_cpu_core advises                *)
(* (RxDataset_riscv.h:96-101), under SpecCpuCore.                          *)
(***************************************************************************)

\* C14: coreIndexRange.  For every int thread id, negative ones included, and
\* every reported online-processor count n, the value get_optimal_cpu_core
\* returns lies in 0 .. max(1, n) - 1.
CpuCoreInRange ==
    (fn = "get_optimal_cpu_core" /\ cpc = "once") =>
        /\ result >= 0
        /\ result <= Max(1, args.nprocs) - 1

\* the index is in range for the thread ids that are not negative, and for a
\* negative one it is the negated index of the id's absolute value
CpuCoreInRangeFromZero ==
    (fn = "get_optimal_cpu_core" /\ cpc = "once") =>
        IF args.thread_id >= 0
        THEN result \in 0..(Max(1, args.nprocs) - 1)
        ELSE result = 0 - ((0 - args.thread_id) % Max(1, args.nprocs))

====
